---- MODULE Spec2Model ----
(***************************************************************************)
(* gloo TCP transport: the connection listener (listener.cc) and the       *)
(* one-shot value transfer operations read<T> / write<T> (helpers.h).      *)
(*                                                                         *)
(* Spec    : the listener. Caller threads run nextAddress and              *)
(*           waitForConnection, the reactor thread runs the accept path,   *)
(*           the sequence-number reads, haveConnection, deferred functions  *)
(*           and the user callbacks (which may re-enter the listener).     *)
(* LiveSpec: Spec with the fairness of a running scheduler and reactor.    *)
(* LifetimeSpec: Spec followed by the destruction of the listener.         *)
(* OpSpec  : the transfer operations on their own.                         *)
(***************************************************************************)
EXTENDS Integers, Sequences, FiniteSets, TLC

\* ------------------------------------------------------------------ bounds

\* Sequence numbers carried by addresses and handshakes are 0 .. MaxSeq-1.
MaxSeq == 2
\* Number of nextAddress calls.
MaxIssue == 2
\* Number of waitForConnection calls (each passes a fresh callback).
MaxFn == 2
\* Number of inbound connections the remote peers open.
MaxConn == 2
\* sizeof(T) of the value moved by a transfer operation, in bytes.
SizeofT == 2
\* Number of transfer operations created in OpSpec.
MaxOps == 2

Seqs == 0 .. (MaxSeq - 1)
Fns == 1 .. MaxFn
Socks == 1 .. MaxConn
Timeouts == {0, 1}

Reactor == "loop"
Callers == {"t1", "t2"}
Threads == Callers \cup {Reactor}

\* An absent entry (map.end()), an empty shared_ptr or std::function.
None == -1
NoOwner == "unlocked"

\* ------------------------------------------------------------------ state

VARIABLES
    seq_,            \* Listener::seq_
    seqToCallback_,  \* Listener::seqToCallback_ : seq -> callback
    seqToSocket_,    \* Listener::seqToSocket_ : seq -> socket
    mutex,           \* Listener::mutex_ : its owner
    deferred,        \* functions handed to Loop::defer, not yet run
    backlog,         \* connections queued on the listening socket
    conn,            \* per inbound connection: where it is, what it carried
    pc,              \* per thread: position in the code
    frame,           \* per thread: the locals of the call it is in
    faulted,         \* accept() has failed with an errno other than EAGAIN
    returned,        \* history: sequence numbers returned by nextAddress
    waited,          \* history: seq -> callbacks passed to completed waitForConnection calls
    handshaken,      \* history: seq -> sockets passed to completed haveConnection calls
    invoked,         \* history: the callback invocations, in order
    ops,             \* OpSpec: the transfer operations
    destroyed        \* Listener::~Listener has run

lvars == <<seq_, seqToCallback_, seqToSocket_, mutex, deferred, backlog, conn,
           pc, frame, faulted, returned, waited, handshaken, invoked, destroyed>>
vars == <<seq_, seqToCallback_, seqToSocket_, mutex, deferred, backlog, conn,
          pc, frame, faulted, returned, waited, handshaken, invoked, ops, destroyed>>

NoFrame == [seq |-> None, fn |-> None, sock |-> None]

\* ------------------------------------------------------------------ helpers

\* Mutant: the lock is not taken (the guard is missing).
MutCanLock(t) == TRUE

\* std::mutex::lock succeeds only while no thread owns the mutex.
CanLock(t) == mutex = NoOwner

\* Mutant: haveConnection calls fn without lock.unlock().
MutUnlockBeforeCall(t) == mutex

\* lock.unlock() of haveConnection, before the callback is called.
UnlockBeforeCall(t) == NoOwner

\* The destructor of lock_guard / unique_lock: releases if it still owns.
LockDtor(m, t) == IF m = t THEN NoOwner ELSE m

\* map.find(seq) != map.end()
Found(map, s) == map[s] # None

\* map.emplace(seq, v): inserts only when no entry has the key.
Emplace(map, s, v) == IF map[s] = None THEN [map EXCEPT ![s] = v] ELSE map

\* Mutant: the matched entry is left in the table.
MutEraseNothing(map, s) == map

\* Mutant: clear() in place of erase(it).
MutEraseAll(map, s) == [x \in DOMAIN map |-> None]

\* map.erase(it) with it pointing at seq.
Erase(map, s) == [map EXCEPT ![s] = None]

\* Where a thread is between listener calls: the reactor runs nextAddress and
\* waitForConnection only from inside a user callback.
Home(t) == IF t = Reactor THEN "in_cb" ELSE "idle"

\* Number of waitForConnection calls started so far.
FnsUsed == Cardinality({f \in Fns :
              \/ \E t \in Threads : frame[t].fn = f
              \/ \E s \in Seqs : f \in waited[s]})

\* The loop thread has not thrown out of Listener::handleEvents. An exception
\* leaving a handler ends the loop thread and with it the process.
Running == pc[Reactor] # "thrown"

\* The errno accept() can fail with now: EAGAIN when no connection is queued,
\* EMFILE (out of descriptors) at any time.
AcceptErrnos == (IF backlog = <<>> THEN {"EAGAIN"} ELSE {}) \cup {"EMFILE"}

\* Mutant: every failure of accept() is taken for would-block.
MutIsWouldBlock(errno) == TRUE

\* if (errno == EAGAIN) return;
IsWouldBlock(errno) == errno = "EAGAIN"

\* Mutant: handleEvents accepts one connection and returns.
MutLoopBack == "idle"

\* for (;;): after starting the read on an accepted socket, accept again.
LoopBack == "he_accept"

\* Mutant: the function is run by the thread that defers it.
MutDeferThread(t) == t

\* loop_->defer(f) on thread t: the thread that will run f.
DeferThread(t) == Reactor

\* Mutant: a transfer of no bytes does not count as short.
MutUnsignedLess(rv, n) == rv > 0 /\ rv < n

\* ssize_t rv compared with size_t n by "rv < n": rv is converted to unsigned,
\* so a negative rv is a huge value and never less than n.
UnsignedLess(rv, n) == rv >= 0 /\ rv < n

\* Mutant: the rv == -1 test is missing.
MutReadResult(rv, errno) ==
    IF UnsignedLess(rv, SizeofT)
    THEN [status |-> "ShortReadError", got |-> rv, want |-> SizeofT]
    ELSE [status |-> "OK"]

\* ReadValueOperation_::handleEvents after the read call returned rv: the
\* error handed to the completion callback.
ReadResult(rv, errno) ==
    IF rv = -1 THEN [status |-> "SystemError", what |-> "read", code |-> errno]
    ELSE IF UnsignedLess(rv, SizeofT)
         THEN [status |-> "ShortReadError", got |-> rv, want |-> SizeofT]
         ELSE [status |-> "OK"]

\* WriteValueOperation_::handleEvents after the write call returned rv.
WriteResult(rv, errno) ==
    IF rv = -1 THEN [status |-> "SystemError", what |-> "write", code |-> errno]
    ELSE IF UnsignedLess(rv, SizeofT)
         THEN [status |-> "ShortReadError", got |-> rv, want |-> SizeofT]
         ELSE [status |-> "OK"]

\* Mutant: the lambda does not test the error.
MutIsError(e) == FALSE

\* if (error) in the lambda of Listener::handleEvents: Error::operator bool.
IsError(e) == e.status # "OK"

\* Mutant: waitForConnection takes the socket and forgets to defer the callback.
MutDefer(q, f) == q

\* loop_->defer(f): f joins the functions the loop will run.
Defer(q, f) == Append(q, f)

\* What read(2) / write(2) of SizeofT bytes can return, and errno after -1.
Rvs == (-1) .. SizeofT
Errnos == {"ECONNRESET", "EAGAIN"}

\* One invocation of a waitForConnection callback: fn(sock, Error::OK).
Call(f, s, k, t, via) ==
    [fn |-> f, seq |-> s, sock |-> k, status |-> "OK", thread |-> t,
     held |-> (mutex = t), via |-> via]

\* ------------------------------------------------------------------ Init

Init ==
    /\ seq_ = 0
    /\ seqToCallback_ = [s \in Seqs |-> None]
    /\ seqToSocket_ = [s \in Seqs |-> None]
    /\ mutex = NoOwner
    /\ deferred = <<>>
    /\ backlog = <<>>
    /\ conn = [k \in Socks |-> [st |-> "none", seq |-> None, full |-> FALSE]]
    /\ pc = [t \in Threads |-> "idle"]
    /\ frame = [t \in Threads |-> NoFrame]
    /\ faulted = FALSE
    /\ returned = <<>>
    /\ waited = [s \in Seqs |-> {}]
    /\ handshaken = [s \in Seqs |-> {}]
    /\ invoked = <<>>
    /\ ops = <<>>
    /\ destroyed = FALSE

\* ------------------------------------------------------------------ nextAddress

\* A thread calls nextAddress: std::lock_guard<std::mutex> guard(mutex_) blocks
\* until the mutex is free (a thread that owns it already blocks for ever).
\* Then seq_++ : the load of the old value ...
NextAddressLock(t) ==
    /\ Running
    /\ ~destroyed
    /\ pc[t] = Home(t)
    /\ Len(returned) + Cardinality({u \in Threads : pc[u] = "na_store"}) < MaxIssue
    /\ CanLock(t)
    /\ mutex' = t
    /\ frame' = [frame EXCEPT ![t] = [NoFrame EXCEPT !.seq = seq_]]
    /\ pc' = [pc EXCEPT ![t] = "na_store"]
    /\ UNCHANGED <<seq_, seqToCallback_, seqToSocket_, deferred, backlog, conn,
                   faulted, returned, waited, handshaken, invoked, ops, destroyed>>

\* ... the store of the incremented value, and the return of Address(addr_, old).
NextAddressStore(t) ==
    /\ Running
    /\ pc[t] = "na_store"
    /\ seq_' = frame[t].seq + 1
    /\ returned' = Append(returned, frame[t].seq)
    /\ mutex' = LockDtor(mutex, t)
    /\ frame' = [frame EXCEPT ![t] = NoFrame]
    /\ pc' = [pc EXCEPT ![t] = Home(t)]
    /\ UNCHANGED <<seqToCallback_, seqToSocket_, deferred, backlog, conn,
                   faulted, waited, handshaken, invoked, ops, destroyed>>

\* ------------------------------------------------------------------ waitForConnection

\* A thread calls waitForConnection(addr, timeout, fn) with a fresh callback:
\* std::unique_lock<std::mutex> lock(mutex_) blocks until the mutex is free.
\* The timeout is an argument the body never reads. Then
\* auto it = seqToSocket_.find(seq); if (it == seqToSocket_.end())
WaitForConnectionLock(t) ==
    /\ Running
    /\ ~destroyed
    /\ pc[t] = Home(t)
    /\ FnsUsed < MaxFn
    /\ CanLock(t)
    /\ mutex' = t
    /\ \E s \in Seqs, timeout \in Timeouts :
          /\ frame' = [frame EXCEPT ![t] = [seq |-> s, fn |-> FnsUsed + 1, sock |-> None]]
          /\ pc' = [pc EXCEPT ![t] = IF Found(seqToSocket_, s)
                                     THEN "wfc_erase" ELSE "wfc_emplace"]
    /\ UNCHANGED <<seq_, seqToCallback_, seqToSocket_, deferred, backlog, conn,
                   faulted, returned, waited, handshaken, invoked, ops, destroyed>>

\* seqToCallback_.emplace(seq, std::move(fn)); return;
WaitForConnectionEmplace(t) ==
    /\ Running
    /\ pc[t] = "wfc_emplace"
    /\ seqToCallback_' = Emplace(seqToCallback_, frame[t].seq, frame[t].fn)
    /\ waited' = [waited EXCEPT ![frame[t].seq] = @ \cup {frame[t].fn}]
    /\ mutex' = LockDtor(mutex, t)
    /\ frame' = [frame EXCEPT ![t] = NoFrame]
    /\ pc' = [pc EXCEPT ![t] = Home(t)]
    /\ UNCHANGED <<seq_, seqToSocket_, deferred, backlog, conn,
                   faulted, returned, handshaken, invoked, ops, destroyed>>

\* auto socket = std::move(it->second); seqToSocket_.erase(it);
\* loop_->defer([fn, socket]() { fn(socket, Error::OK); });
WaitForConnectionErase(t) ==
    /\ Running
    /\ pc[t] = "wfc_erase"
    /\ seqToSocket_' = Erase(seqToSocket_, frame[t].seq)
    /\ deferred' = Defer(deferred, [fn |-> frame[t].fn, seq |-> frame[t].seq,
                                    sock |-> seqToSocket_[frame[t].seq],
                                    thread |-> DeferThread(t)])
    /\ waited' = [waited EXCEPT ![frame[t].seq] = @ \cup {frame[t].fn}]
    /\ mutex' = LockDtor(mutex, t)
    /\ frame' = [frame EXCEPT ![t] = NoFrame]
    /\ pc' = [pc EXCEPT ![t] = Home(t)]
    /\ UNCHANGED <<seq_, seqToCallback_, backlog, conn,
                   faulted, returned, handshaken, invoked, ops, destroyed>>

\* ------------------------------------------------------------------ remote peers

\* A remote peer connects: the connection is queued on the listening socket.
Connect(k) ==
    /\ Running
    /\ ~destroyed
    /\ conn[k].st = "none"
    /\ \A j \in Socks : j < k => conn[j].st # "none"
    /\ conn' = [conn EXCEPT ![k].st = "queued"]
    /\ backlog' = Append(backlog, k)
    /\ UNCHANGED <<seq_, seqToCallback_, seqToSocket_, mutex, deferred,
                   pc, frame, faulted, returned, waited, handshaken, invoked, ops, destroyed>>

\* ------------------------------------------------------------------ Listener::handleEvents

\* The listening descriptor is registered for EPOLLIN, level-triggered: the loop
\* calls handleEvents while a connection is queued, and the lock_guard takes
\* the mutex. queued: the connections queued at this notification; accepted:
\* those this invocation has accepted so far.
HandleEventsLock ==
    /\ Running
    /\ ~destroyed
    /\ pc[Reactor] = "idle"
    /\ backlog # <<>>
    /\ CanLock(Reactor)
    /\ mutex' = Reactor
    /\ frame' = [frame EXCEPT ![Reactor] =
                   [seq |-> None, fn |-> None, sock |-> None,
                    queued |-> Len(backlog), accepted |-> 0]]
    /\ pc' = [pc EXCEPT ![Reactor] = "he_accept"]
    /\ UNCHANGED <<seq_, seqToCallback_, seqToSocket_, deferred, backlog, conn,
                   faulted, returned, waited, handshaken, invoked, ops, destroyed>>

\* accept() returns a socket: set its options and start read<sequence_number_t>
\* on it (the operation registers the socket with the loop), then loop.
HandleEventsAccept ==
    /\ Running
    /\ pc[Reactor] = "he_accept"
    /\ backlog # <<>>
    /\ conn' = [conn EXCEPT ![Head(backlog)].st = "reading"]
    /\ backlog' = Tail(backlog)
    /\ frame' = [frame EXCEPT ![Reactor].accepted = @ + 1]
    /\ pc' = [pc EXCEPT ![Reactor] = LoopBack]
    /\ mutex' = IF LoopBack = "he_accept" THEN mutex ELSE LockDtor(mutex, Reactor)
    /\ UNCHANGED <<seq_, seqToCallback_, seqToSocket_, deferred,
                   faulted, returned, waited, handshaken, invoked, ops, destroyed>>

\* accept() fails with EAGAIN: return, the lock_guard releases the mutex.
HandleEventsWouldBlock ==
    /\ Running
    /\ pc[Reactor] = "he_accept"
    /\ \E errno \in AcceptErrnos :
          /\ IsWouldBlock(errno)
          /\ faulted' = (faulted \/ errno # "EAGAIN")
    /\ mutex' = LockDtor(mutex, Reactor)
    /\ frame' = [frame EXCEPT ![Reactor] = NoFrame]
    /\ pc' = [pc EXCEPT ![Reactor] = "idle"]
    /\ UNCHANGED <<seq_, seqToCallback_, seqToSocket_, deferred, backlog, conn,
                   returned, waited, handshaken, invoked, ops, destroyed>>

\* accept() fails with another errno: GLOO_ENFORCE(false, ...) throws out of
\* handleEvents (the lock_guard releases the mutex while unwinding). faulted
\* records that accept() has failed with an errno other than EAGAIN.
HandleEventsEnforce ==
    /\ Running
    /\ pc[Reactor] = "he_accept"
    /\ \E errno \in AcceptErrnos : ~IsWouldBlock(errno)
    /\ faulted' = TRUE
    /\ mutex' = LockDtor(mutex, Reactor)
    /\ frame' = [frame EXCEPT ![Reactor] = NoFrame]
    /\ pc' = [pc EXCEPT ![Reactor] = "thrown"]
    /\ UNCHANGED <<seq_, seqToCallback_, seqToSocket_, deferred, backlog, conn,
                   returned, waited, handshaken, invoked, ops, destroyed>>

\* ------------------------------------------------------------------ the sequence-number read

\* The read operation of an accepted socket gets its readiness notification:
\* one read call returning rv, then the lambda of Listener::handleEvents runs:
\* on error it prints and returns, otherwise it calls haveConnection(socket, seq)
\* with the sequence number the peer wrote. full: all SizeofT bytes arrived.
ReadSeqHandleEvents(k) ==
    /\ Running
    /\ pc[Reactor] = "idle"
    /\ conn[k].st = "reading"
    /\ \E rv \in Rvs, errno \in Errnos, s \in Seqs :
          IF IsError(ReadResult(rv, errno))
          THEN /\ conn' = [conn EXCEPT ![k] = [st |-> "failed", seq |-> None,
                                               full |-> (rv = SizeofT)]]
               /\ UNCHANGED <<pc, frame>>
          ELSE /\ conn' = [conn EXCEPT ![k] = [st |-> "handshaken", seq |-> s,
                                               full |-> (rv = SizeofT)]]
               /\ frame' = [frame EXCEPT ![Reactor] = [seq |-> s, fn |-> None, sock |-> k]]
               /\ pc' = [pc EXCEPT ![Reactor] = "hc_lock"]
    /\ UNCHANGED <<seq_, seqToCallback_, seqToSocket_, mutex, deferred, backlog,
                   faulted, returned, waited, handshaken, invoked, ops, destroyed>>

\* ------------------------------------------------------------------ haveConnection

\* std::unique_lock<std::mutex> lock(mutex_); then
\* auto it = seqToCallback_.find(seq); if (it == seqToCallback_.end())
HaveConnectionLock ==
    /\ Running
    /\ ~destroyed
    /\ pc[Reactor] = "hc_lock"
    /\ CanLock(Reactor)
    /\ mutex' = Reactor
    /\ pc' = [pc EXCEPT ![Reactor] = IF Found(seqToCallback_, frame[Reactor].seq)
                                     THEN "hc_erase" ELSE "hc_emplace"]
    /\ UNCHANGED <<seq_, seqToCallback_, seqToSocket_, deferred, backlog, conn,
                   frame, faulted, returned, waited, handshaken, invoked, ops, destroyed>>

\* seqToSocket_.emplace(seq, std::move(socket)); return;
HaveConnectionEmplace ==
    /\ Running
    /\ pc[Reactor] = "hc_emplace"
    /\ seqToSocket_' = Emplace(seqToSocket_, frame[Reactor].seq, frame[Reactor].sock)
    /\ handshaken' = [handshaken EXCEPT ![frame[Reactor].seq] = @ \cup {frame[Reactor].sock}]
    /\ mutex' = LockDtor(mutex, Reactor)
    /\ frame' = [frame EXCEPT ![Reactor] = NoFrame]
    /\ pc' = [pc EXCEPT ![Reactor] = "idle"]
    /\ UNCHANGED <<seq_, seqToCallback_, deferred, backlog, conn,
                   faulted, returned, waited, invoked, ops, destroyed>>

\* auto fn = std::move(it->second); seqToCallback_.erase(it); lock.unlock();
HaveConnectionErase ==
    /\ Running
    /\ pc[Reactor] = "hc_erase"
    /\ frame' = [frame EXCEPT ![Reactor].fn = seqToCallback_[frame[Reactor].seq]]
    /\ seqToCallback_' = Erase(seqToCallback_, frame[Reactor].seq)
    /\ handshaken' = [handshaken EXCEPT ![frame[Reactor].seq] = @ \cup {frame[Reactor].sock}]
    /\ mutex' = UnlockBeforeCall(Reactor)
    /\ pc' = [pc EXCEPT ![Reactor] = "hc_call"]
    /\ UNCHANGED <<seq_, seqToSocket_, deferred, backlog, conn,
                   faulted, returned, waited, invoked, ops, destroyed>>

\* fn(std::move(socket), Error::OK);
HaveConnectionCall ==
    /\ Running
    /\ pc[Reactor] = "hc_call"
    /\ invoked' = Append(invoked, Call(frame[Reactor].fn, frame[Reactor].seq,
                                       frame[Reactor].sock, Reactor, "haveConnection"))
    /\ frame' = [frame EXCEPT ![Reactor] = NoFrame]
    /\ pc' = [pc EXCEPT ![Reactor] = "in_cb"]
    /\ UNCHANGED <<seq_, seqToCallback_, seqToSocket_, mutex, deferred, backlog, conn,
                   faulted, returned, waited, handshaken, ops, destroyed>>

\* ------------------------------------------------------------------ deferred functions and callbacks

\* The loop runs the oldest deferred function: fn(socket, Error::OK).
RunDeferred ==
    /\ Running
    /\ pc[Reactor] = "idle"
    /\ deferred # <<>>
    /\ invoked' = Append(invoked, Call(Head(deferred).fn, Head(deferred).seq,
                                       Head(deferred).sock, Head(deferred).thread,
                                       "defer"))
    /\ deferred' = Tail(deferred)
    /\ pc' = [pc EXCEPT ![Reactor] = "in_cb"]
    /\ UNCHANGED <<seq_, seqToCallback_, seqToSocket_, mutex, backlog, conn,
                   frame, faulted, returned, waited, handshaken, ops, destroyed>>

\* The user callback returns (it may have called nextAddress or
\* waitForConnection meanwhile). Returning into haveConnection ends it, and its
\* unique_lock is destroyed.
CallbackReturn ==
    /\ Running
    /\ pc[Reactor] = "in_cb"
    /\ mutex' = IF invoked[Len(invoked)].via = "haveConnection"
                THEN LockDtor(mutex, Reactor) ELSE mutex
    /\ pc' = [pc EXCEPT ![Reactor] = "idle"]
    /\ UNCHANGED <<seq_, seqToCallback_, seqToSocket_, deferred, backlog, conn,
                   frame, faulted, returned, waited, handshaken, invoked, ops, destroyed>>

\* ------------------------------------------------------------------ the listener

Next ==
    \/ \E t \in Threads : NextAddressLock(t)
    \/ \E t \in Threads : NextAddressStore(t)
    \/ \E t \in Threads : WaitForConnectionLock(t)
    \/ \E t \in Threads : WaitForConnectionEmplace(t)
    \/ \E t \in Threads : WaitForConnectionErase(t)
    \/ \E k \in Socks : Connect(k)
    \/ HandleEventsLock
    \/ HandleEventsAccept
    \/ HandleEventsWouldBlock
    \/ HandleEventsEnforce
    \/ \E k \in Socks : ReadSeqHandleEvents(k)
    \/ HaveConnectionLock
    \/ HaveConnectionEmplace
    \/ HaveConnectionErase
    \/ HaveConnectionCall
    \/ RunDeferred
    \/ CallbackReturn

Spec == Init /\ [][Next]_vars

\* A call that holds the mutex runs to its end: the scheduler runs every thread.
CallProgress(t) ==
    \/ NextAddressStore(t)
    \/ WaitForConnectionEmplace(t)
    \/ WaitForConnectionErase(t)

\* The loop thread keeps running: it finishes the handler it is in, user
\* callbacks return, and it runs the functions deferred to it.
ReactorProgress ==
    \/ HandleEventsAccept
    \/ HandleEventsWouldBlock
    \/ HaveConnectionLock
    \/ HaveConnectionEmplace
    \/ HaveConnectionErase
    \/ HaveConnectionCall
    \/ CallbackReturn

LiveSpec ==
    /\ Spec
    /\ \A t \in Threads : WF_vars(CallProgress(t))
    /\ WF_vars(ReactorProgress)
    /\ WF_vars(RunDeferred)

\* ------------------------------------------------------------------ Listener::~Listener

\* ~Listener() while no thread is inside a listener call and the loop is in no
\* handler: if (listener_) loop_->unregisterDescriptor(listener_->fd()); then
\* the members are destroyed: the two tables with the callbacks and sockets
\* they hold, and the listening socket with the connections queued on it.
\* Nothing is done about the read operations handleEvents started: they stay
\* registered with the loop and their lambdas hold this.
Destroy ==
    /\ Running
    /\ ~destroyed
    /\ \A t \in Threads : pc[t] = "idle"
    /\ destroyed' = TRUE
    /\ seqToCallback_' = [s \in Seqs |-> None]
    /\ seqToSocket_' = [s \in Seqs |-> None]
    /\ backlog' = <<>>
    /\ conn' = [k \in Socks |-> IF conn[k].st = "queued"
                                 THEN [conn[k] EXCEPT !.st = "refused"]
                                 ELSE conn[k]]
    /\ UNCHANGED <<seq_, mutex, deferred, pc, frame, faulted, returned, waited,
                   handshaken, invoked, ops>>

\* The lambda of a read operation has called haveConnection through the
\* dangling this. Locking mutex_ and searching seqToCallback_ of a destroyed
\* Listener is undefined: the process crashes, or the freed memory is still
\* intact and the call goes on as on an empty table.
UseAfterFree ==
    /\ destroyed
    /\ pc[Reactor] = "hc_lock"
    /\ \E outcome \in {"crash", "intact"} :
          IF outcome = "crash"
          THEN /\ pc' = [pc EXCEPT ![Reactor] = "crashed"]
               /\ UNCHANGED mutex
          ELSE /\ pc' = [pc EXCEPT ![Reactor] = "hc_emplace"]
               /\ mutex' = Reactor
    /\ UNCHANGED <<seq_, seqToCallback_, seqToSocket_, deferred, backlog, conn,
                   frame, faulted, returned, waited, handshaken, invoked, ops,
                   destroyed>>

\* The listener from construction to past its destruction. No thread calls a
\* member function of a destroyed listener and no peer reaches its closed
\* socket; the loop still runs deferred functions, user callbacks and the read
\* operations of accepted sockets, whose lambdas call haveConnection.
LifetimeNext ==
    \/ Next
    \/ Destroy
    \/ UseAfterFree

LifetimeSpec == Init /\ [][LifetimeNext]_vars

\* ------------------------------------------------------------------ transfer operations

\* Mutant: the read registration is not one-shot.
MutReadEvents == {"EPOLLIN"}

\* The event masks the constructors register with the loop.
ReadEvents == {"EPOLLIN", "EPOLLONESHOT"}
WriteEvents == {"EPOLLOUT", "EPOLLONESHOT"}

Values == {0, 1}
Ops == 1 .. MaxOps

\* make_shared<...Operation_<T>>(loop, socket, [t,] fn): the constructor
\* registers the socket with the loop. x is the creator's shared_ptr, leak_ the
\* self-reference, self the one handleEvents holds on its stack. lost: a
\* reference is counted that no shared_ptr holds. took: handleEvents found
\* leak_ set when it moved it.
NewOp(kind, by) ==
    [kind |-> kind, by |-> by,
     events |-> IF kind = "read" THEN ReadEvents ELSE WriteEvents,
     armed |-> TRUE, x |-> TRUE, leak_ |-> FALSE, self |-> FALSE, alive |-> TRUE,
     lost |-> FALSE, took |-> FALSE,
     pos |-> "registered", attempts |-> 0, calls |-> <<>>]

\* read<T>(loop, socket, fn) / write<T>(loop, socket, t, fn) up to the end of
\* make_shared, on the loop thread or on another thread.
OpCreate ==
    /\ Len(ops) < MaxOps
    /\ \A i \in 1 .. Len(ops) : ~ops[i].x
    /\ \E kind \in {"read", "write"}, by \in {"loop", "thread"} :
          ops' = Append(ops, NewOp(kind, by))
    /\ UNCHANGED lvars

\* x->initialize(): leak_ = this->shared_from_this(); then read / write returns
\* and x is destroyed.
OpInitialize(i) ==
    /\ i \in 1 .. Len(ops)
    /\ ops[i].x
    /\ ops' = [ops EXCEPT ![i] = [@ EXCEPT !.leak_ = TRUE, !.x = FALSE]]
    /\ UNCHANGED lvars

\* auto self = std::move(this->leak_) on the loop thread while the creating
\* thread has not finished initialize() is a data race on leak_. Either order
\* of the two is an interleaving of the actions below; when they overlap
\* (torn), the move reads the empty leak_ and its store of the empty value
\* lands after the store of initialize(): the reference initialize() counted is
\* held by no shared_ptr. No reference is released twice: x and initialize()
\* create one each, and the move only transfers.
TornMoves(o) == IF o.by = "thread" /\ o.x THEN {FALSE, TRUE} ELSE {FALSE}

\* The loop delivers the readiness notification of an armed registration:
\* handleEvents moves leak_ to the stack, makes one read / write call returning
\* rv and calls fn_ with the outcome. EPOLLONESHOT disarms the registration.
OpHandleEvents(i) ==
    /\ i \in 1 .. Len(ops)
    /\ ops[i].armed
    /\ \A j \in 1 .. Len(ops) : ops[j].pos # "handling"
    /\ \A j \in 1 .. Len(ops) : ~(ops[j].by = "loop" /\ ops[j].x)
    /\ \E rv \in Rvs :
       \E errno \in (IF rv = -1 THEN Errnos ELSE {"unset"}) :
       \E v \in (IF ops[i].kind = "read" /\ rv = SizeofT THEN Values ELSE {None}) :
          LET err == IF ops[i].kind = "read" THEN ReadResult(rv, errno)
                                             ELSE WriteResult(rv, errno)
              \* sent: the bytes the peer wrote; value: the t_ handed to fn_
              call == [rv |-> rv, errno |-> errno, sent |-> v, err |-> err, value |-> v]
          IN \E torn \in TornMoves(ops[i]) :
             ops' = [ops EXCEPT ![i] =
                       [@ EXCEPT !.self = ops[i].leak_, !.leak_ = FALSE,
                                 !.took = ops[i].leak_,
                                 !.x = IF torn THEN FALSE ELSE @,
                                 !.lost = IF torn THEN TRUE ELSE @,
                                 !.armed = ("EPOLLONESHOT" \notin ops[i].events),
                                 !.pos = "handling",
                                 !.attempts = @ + 1,
                                 !.calls = Append(@, call)]]
    /\ UNCHANGED lvars

\* handleEvents returns: self is destroyed, and with it the object unless
\* another shared_ptr owns it.
OpHandleEventsReturn(i) ==
    /\ i \in 1 .. Len(ops)
    /\ ops[i].pos = "handling"
    /\ ops' = [ops EXCEPT ![i] =
                 [@ EXCEPT !.self = FALSE, !.pos = "handled",
                           !.alive = ops[i].x \/ ops[i].leak_ \/ ops[i].lost]]
    /\ UNCHANGED lvars

OpNext ==
    \/ OpCreate
    \/ \E i \in Ops : OpInitialize(i)
    \/ \E i \in Ops : OpHandleEvents(i)
    \/ \E i \in Ops : OpHandleEventsReturn(i)

OpSpec == Init /\ [][OpNext]_vars

\* ------------------------------------------------------------------ properties

\* The invocations of callbacks with a connection matching s.
CallsFor(s) == {i \in 1 .. Len(invoked) : invoked[i].seq = s}

\* C1: for every sequence number s, at most one callback is ever invoked with a
\* connection matching s, repeated waitForConnection calls and repeated
\* handshakes for s included.
C1_AtMostOneCallbackPerSeq ==
    \A s \in Seqs : Cardinality(CallsFor(s)) <= 1

\* A callback registered for s has been invoked with a socket handshaken with
\* s and OK status.
Delivered(s) ==
    \E i \in 1 .. Len(invoked) :
        /\ invoked[i].fn \in waited[s]
        /\ invoked[i].sock \in handshaken[s]
        /\ invoked[i].status = "OK"

\* C2: once haveConnection(s) ran and waitForConnection was called for s, a
\* callback registered for s is eventually invoked with a socket handshaken
\* with s and OK status, as long as the loop keeps running (no accept fault).
C2_MatchIsDelivered ==
    \A s \in Seqs :
        (waited[s] # {} /\ handshaken[s] # {}) ~> (Delivered(s) \/ faulted)

\* C2 witness: a match made by waitForConnection was delivered by the loop.
C2_Witness ==
    \E s \in Seqs :
        /\ Delivered(s)
        /\ \E i \in CallsFor(s) : invoked[i].via = "defer"
        /\ ~faulted

\* C3: no sequence number has an entry in both seqToCallback_ and seqToSocket_.
C3_TablesExclusive ==
    \A s \in Seqs : ~(Found(seqToCallback_, s) /\ Found(seqToSocket_, s))

\* C3 witness: a caller is inside waitForConnection(s), about to insert its
\* callback, while the loop thread waits for the mutex in haveConnection(s).
C3_Witness ==
    \E t \in Callers :
        /\ pc[t] = "wfc_emplace"
        /\ pc[Reactor] = "hc_lock"
        /\ frame[t].seq = frame[Reactor].seq

\* Nothing for s is on its way: no deferred function, no call about to be made.
Settled(s) ==
    /\ \A i \in 1 .. Len(deferred) : deferred[i].seq # s
    /\ ~(pc[Reactor] = "hc_call" /\ frame[Reactor].seq = s)

OneOfEach(s) == Cardinality(waited[s]) = 1 /\ Cardinality(handshaken[s]) = 1

\* C4: with one waitForConnection(s) and one handshake carrying s, in either
\* order, neither table holds s afterwards, and the callback is invoked exactly
\* once, with the handshaken socket and OK status.
C4_OrderIndependent ==
    \A s \in Seqs :
        OneOfEach(s) =>
            /\ ~Found(seqToCallback_, s) /\ ~Found(seqToSocket_, s)
            /\ Cardinality(CallsFor(s)) <= 1
            /\ \A i \in CallsFor(s) :
                  /\ invoked[i].fn \in waited[s]
                  /\ invoked[i].sock \in handshaken[s]
                  /\ invoked[i].status = "OK"
            /\ Settled(s) => Cardinality(CallsFor(s)) = 1

\* C4 witness: one sequence number matched wait-first (called from
\* haveConnection), another handshake-first (deferred), both delivered once.
C4_Witness ==
    \E s1, s2 \in Seqs :
        /\ OneOfEach(s1) /\ OneOfEach(s2)
        /\ \E i \in CallsFor(s1) : invoked[i].via = "haveConnection"
        /\ \E i \in CallsFor(s2) : invoked[i].via = "defer"

\* C5: nextAddress never returns the same sequence number twice.
C5_NextAddressUnique ==
    \A i, j \in 1 .. Len(returned) : i # j => returned[i] # returned[j]

\* C5 witness: nextAddress has returned, and two threads are in or at it at
\* once: one holds the mutex inside it while the loop thread runs a callback.
C5_Witness ==
    /\ Len(returned) >= 1
    /\ \E t \in Callers : pc[t] = "na_store"
    /\ pc[Reactor] = "in_cb"

\* C6: a callback is never invoked by a thread that holds the listener mutex,
\* and the loop thread is never inside a callback while it owns the mutex (a
\* re-entrant nextAddress or waitForConnection would block for ever).
C6_CallbackWithoutLock ==
    /\ \A i \in 1 .. Len(invoked) : ~invoked[i].held
    /\ ~(pc[Reactor] = "in_cb" /\ mutex = Reactor)

\* C6 witness: a callback called from haveConnection re-entered
\* waitForConnection and got the mutex.
C6_Witness ==
    /\ Len(invoked) >= 1
    /\ invoked[Len(invoked)].via = "haveConnection"
    /\ pc[Reactor] \in {"wfc_emplace", "wfc_erase"}
    /\ mutex = Reactor

\* C7: a sequence-number read that ends without all its bytes leaves the
\* listener as it was: both tables, the deferred functions, the invocations,
\* and no haveConnection call is started.
C7_FailedReadChangesNothing ==
    [][\A k \in Socks :
          (conn[k].st = "reading" /\ conn'[k].st # "reading" /\ ~conn'[k].full)
          => /\ UNCHANGED <<seqToCallback_, seqToSocket_, deferred, invoked>>
             /\ UNCHANGED <<pc, frame, mutex>>]_vars

\* C7 witness: a read failed while a callback was pending; it still is.
C7_Witness ==
    \E k \in Socks, s \in Seqs :
        /\ conn[k].st = "failed"
        /\ Found(seqToCallback_, s)
        /\ invoked = <<>>

\* C8: while no handshake carrying s has completed, a sequence number that was
\* waited for keeps its entry in seqToCallback_, and no callback registered
\* for s is invoked or scheduled, whatever the timeout passed.
C8_NoHandshakeNoCallback ==
    \A s \in Seqs :
        (handshaken[s] = {} /\ waited[s] # {}) =>
            /\ seqToCallback_[s] \in waited[s]
            /\ \A i \in 1 .. Len(invoked) : invoked[i].fn \notin waited[s]
            /\ \A i \in 1 .. Len(deferred) : deferred[i].fn \notin waited[s]

\* C8 witness: s is waited for and has seen no handshake, while another
\* sequence number was matched and a read failed.
C8_Witness ==
    \E s \in Seqs :
        /\ handshaken[s] = {} /\ waited[s] # {}
        /\ Len(invoked) >= 1
        /\ \E k \in Socks : conn[k].st = "failed"

\* C9: a transfer operation makes one read / write call, at its readiness
\* notification, and calls its completion callback once, whatever the outcome.
C9_OneAttemptOneCompletion ==
    \A i \in 1 .. Len(ops) :
        /\ ops[i].attempts <= 1
        /\ Len(ops[i].calls) = ops[i].attempts
        /\ ops[i].pos # "registered" => ops[i].attempts = 1

\* C9 witness: a read and a write have both completed, one of them in error.
C9_Witness ==
    \E i, j \in 1 .. Len(ops) :
        /\ ops[i].kind = "read" /\ ops[j].kind = "write"
        /\ ops[i].pos = "handled" /\ ops[j].pos = "handled"
        /\ ops[i].calls[1].err.status = "SystemError"

\* The outcome the callback must get for rv.
Expected(kind, c) ==
    IF c.rv = SizeofT THEN c.err = [status |-> "OK"] /\ (kind = "read" => c.value = c.sent)
    ELSE IF c.rv = -1
         THEN c.err = [status |-> "SystemError", what |-> kind, code |-> c.errno]
         ELSE c.err = [status |-> "ShortReadError", got |-> c.rv, want |-> SizeofT]

\* C10: the outcome handed to the callback is decided by rv: SizeofT gives OK
\* (and the value read), -1 a SystemError naming the operation with errno,
\* 1 .. SizeofT-1 a short-transfer error carrying (rv, SizeofT).
C10_OutcomeByReturnValue ==
    \A i \in 1 .. Len(ops) :
        \A n \in 1 .. Len(ops[i].calls) :
            LET c == ops[i].calls[n] IN
            (c.rv = -1 \/ c.rv \in 1 .. SizeofT) =>
                /\ Expected(ops[i].kind, c)
                /\ c.err.status \in {"OK", "SystemError", "ShortReadError"}

\* C10 witness: a read got a system error and a write was short.
C10_Witness ==
    \E i, j \in 1 .. Len(ops) :
        /\ ops[i].kind = "read" /\ Len(ops[i].calls) = 1 /\ ops[i].calls[1].rv = -1
        /\ ops[j].kind = "write" /\ Len(ops[j].calls) = 1
        /\ ops[j].calls[1].rv \in 1 .. (SizeofT - 1)

\* C11: a transfer operation is alive from its creation until its readiness
\* notification has been handled, and is destroyed when the one handleEvents
\* invocation that completes it returns: after that return the object is not
\* alive, no shared_ptr to it is left, its registration is disarmed and its
\* callback has run once.
C11_DestroyedWhenHandled ==
    \A i \in 1 .. Len(ops) :
        /\ ops[i].pos \in {"registered", "handling"} => ops[i].alive
        /\ ops[i].pos = "handled" =>
              /\ ~ops[i].alive
              /\ ~ops[i].x /\ ~ops[i].leak_ /\ ~ops[i].self /\ ~ops[i].lost
              /\ ~ops[i].armed
              /\ Len(ops[i].calls) = 1

\* C12: one run of Listener::handleEvents accepts every queued connection and
\* starts the sequence-number read on each. Each accept turns the head of the
\* queue into a socket being read and stays in the loop; the run returns only
\* when nothing is queued, having accepted at least the connections that were
\* queued at the notification.
C12_AcceptLoopDrains ==
    [][/\ (pc[Reactor] = "he_accept" /\ Len(backlog') < Len(backlog)) =>
              /\ conn'[Head(backlog)].st = "reading"
              /\ pc'[Reactor] = "he_accept"
       /\ (pc[Reactor] = "he_accept" /\ pc'[Reactor] = "idle") =>
              /\ backlog' = <<>>
              /\ \A k \in Socks : conn'[k].st # "queued"
              /\ frame[Reactor].accepted >= frame[Reactor].queued]_vars

\* C12 witness: two connections were queued at the notification and this run
\* has accepted both and is about to see would-block.
C12_Witness ==
    /\ pc[Reactor] = "he_accept"
    /\ frame[Reactor].queued = 2
    /\ frame[Reactor].accepted = 2
    /\ backlog = <<>>
    /\ \A k \in 1 .. 2 : conn[k].st = "reading"

\* The places that own socket k: entries of the pending socket table, and
\* callbacks it was handed to (scheduled with loop_->defer, or invoked).
InTable(k) == {s \in Seqs : seqToSocket_[s] = k}
HandedTo(k) == {<<"deferred", i>> : i \in {j \in 1 .. Len(deferred) : deferred[j].sock = k}}
               \cup {<<"invoked", i>> : i \in {j \in 1 .. Len(invoked) : invoked[j].sock = k}}

\* C13: a socket has at most one owner among the pending socket table and the
\* callbacks: it is not in the table once handed to a callback, it is never
\* handed to two callbacks, and the step that removes it from the table hands
\* it to exactly one callback.
C13_SocketHasOneOwner ==
    /\ [](\A k \in Socks : Cardinality(InTable(k)) + Cardinality(HandedTo(k)) <= 1)
    /\ [][\A s \in Seqs, k \in Socks :
             (seqToSocket_[s] = k /\ seqToSocket_'[s] # k) =>
                 /\ HandedTo(k) = {}
                 /\ Cardinality(HandedTo(k)') = 1]_vars

\* C13 witness: one socket went through the table and was delivered by a
\* deferred function, another was delivered by haveConnection directly.
C13_Witness ==
    /\ \A s \in Seqs : seqToSocket_[s] = None
    /\ \E i, j \in 1 .. Len(invoked) :
          /\ invoked[i].via = "defer" /\ invoked[j].via = "haveConnection"
          /\ invoked[i].sock # invoked[j].sock

\* C14: once accept() has failed with an errno other than EAGAIN, the accept
\* path is over: the loop thread has thrown out of handleEvents, no connection
\* is accepted, no read started or completed, no table changed and no callback
\* scheduled or invoked from then on. A return to the loop from the accept
\* loop happens without such a failure.
C14_AcceptFailureIsFatal ==
    /\ [](faulted => pc[Reactor] = "thrown")
    /\ [][faulted => UNCHANGED <<backlog, conn, seqToCallback_, seqToSocket_,
                                 deferred, invoked, handshaken>>]_vars
    /\ [][(pc[Reactor] = "he_accept" /\ pc'[Reactor] = "idle") => ~faulted']_vars

\* C14 witness: accept() failed while a connection was still queued and the
\* read on an accepted socket was outstanding.
C14_Witness ==
    /\ faulted
    /\ backlog # <<>>
    /\ \E k \in Socks : conn[k].st = "reading"

\* C15: waitForConnection never invokes the callback itself. A call that
\* finds the socket removes the entry and hands one function to loop_->defer;
\* a call that does not only inserts the callback. Every invocation is made by
\* the loop thread, from haveConnection or from a deferred function, and not
\* inside a waitForConnection call.
C15_CallbackOnlyOnReactor ==
    /\ [](\A i \in 1 .. Len(invoked) :
             /\ invoked[i].thread = Reactor
             /\ invoked[i].via \in {"haveConnection", "defer"})
    /\ [][\A t \in Threads :
             (pc[t] \in {"wfc_emplace", "wfc_erase"} /\ pc'[t] # pc[t]) =>
                 /\ invoked' = invoked
                 /\ pc[t] = "wfc_erase" =>
                       /\ seqToSocket_'[frame[t].seq] = None
                       /\ Len(deferred') = Len(deferred) + 1
                       /\ deferred'[Len(deferred')].fn = frame[t].fn
                       /\ seqToCallback_' = seqToCallback_
                 /\ pc[t] = "wfc_emplace" =>
                       /\ deferred' = deferred
                       /\ seqToSocket_' = seqToSocket_]_vars
    /\ [][invoked' # invoked => pc[Reactor] \in {"idle", "hc_call"}]_vars

\* C15 witness: a caller thread found the socket in waitForConnection, and the
\* callback has since been invoked by the loop thread from the deferred
\* function; a waitForConnection made from inside a callback on the loop
\* thread has scheduled a second one.
C15_Witness ==
    /\ \E i \in 1 .. Len(invoked) : invoked[i].via = "defer"
    /\ pc[Reactor] = "in_cb"
    /\ deferred # <<>>

\* C17: every callback a completed waitForConnection(s, fn) was given is
\* accounted for: it is the entry of s in seqToCallback_, or in a function
\* handed to loop_->defer, or taken out by haveConnection to be called, or it
\* has been invoked. A second waitForConnection for s does not lose it.
C17_NoCallbackLost ==
    \A s \in Seqs : \A f \in waited[s] :
        \/ seqToCallback_[s] = f
        \/ \E i \in 1 .. Len(deferred) : deferred[i].fn = f
        \/ pc[Reactor] = "hc_call" /\ frame[Reactor].fn = f
        \/ \E i \in 1 .. Len(invoked) : invoked[i].fn = f

\* C16: whenever handleEvents has started on a transfer operation, it found
\* leak_ set when it moved it to the stack, whichever thread created the
\* operation; and an operation whose handleEvents has returned and whose
\* creator has returned from read / write is destroyed.
C16_LeakSetBeforeHandleEvents ==
    \A i \in 1 .. Len(ops) :
        /\ ops[i].pos # "registered" => ops[i].took
        /\ (ops[i].pos = "handled" /\ ~ops[i].x) => ~ops[i].alive

\* C19: once the Listener is destroyed, the loop thread is never inside
\* haveConnection on it: a sequence-number read that completes after the
\* destruction does not reach the listener's mutex and tables.
C19_NoCallbackAfterDestroy ==
    destroyed => pc[Reactor] \notin {"hc_lock", "hc_emplace", "hc_erase", "hc_call",
                                     "crashed"}

\* C18: a read / write call that returns 0 gives the callback the
\* short-transfer error carrying (0, SizeofT): not OK, not a SystemError.
C18_ZeroBytesIsShort ==
    \A i \in 1 .. Len(ops) :
        \A n \in 1 .. Len(ops[i].calls) :
            ops[i].calls[n].rv = 0 =>
                ops[i].calls[n].err =
                    [status |-> "ShortReadError", got |-> 0, want |-> SizeofT]

\* C18 witness: a read and a write have both completed with 0 bytes.
C18_Witness ==
    \E i, j \in 1 .. Len(ops) :
        /\ ops[i].kind = "read" /\ ops[j].kind = "write"
        /\ ops[i].pos = "handled" /\ ops[j].pos = "handled"
        /\ ops[i].calls[1].rv = 0 /\ ops[j].calls[1].rv = 0

====
